---- MODULE Spec2Model ----
(***************************************************************************)
(* A model of advisor-cli (src/main.rs): the command parser Command::parse *)
(* with the has_at validator, the main routine (argument matching, config  *)
(* loading, instance lookup), and the HTTP executor get().                 *)
(*                                                                         *)
(* Command-line tokens are sequences of one-character strings, so that     *)
(* has_at inspects the characters of a value.  Instance names and          *)
(* locations are strings: they are only compared and concatenated.         *)
(***************************************************************************)
EXTENDS Naturals, Sequences, FiniteSets

VARIABLES
    arguments,   \* Command::parse: the Vec<String> handed to parse
    command,     \* Command::parse: what the call produced
    parse_pc,    \* "idle" | "called" | "returned" | "panicked"
    cli,         \* main: the process's command line [app, sub]
    file,        \* main: the .advisor settings source found on disk
    matches,     \* main: the outcome of get_matches
    config,      \* main: the outcome of load_config
    app,         \* main: the outcome of config.for_app
    stdout,      \* main: the lines printed so far
    main_pc,     \* main: position in the routine
    endpoint,    \* get: the URL requested
    get_pc,      \* get: "idle" | "connecting" | "awaiting_headers" | "reading_body" | "returned"
    clock,       \* get: seconds elapsed since get() was called
    body_len,    \* get: number of body chunks the remote announced
    received,    \* get: number of body chunks read so far
    result       \* get: the value returned

parse_vars == <<arguments, command, parse_pc>>
main_vars == <<cli, file, matches, config, app, stdout, main_pc>>
get_vars == <<endpoint, get_pc, clock, body_len, received, result>>
vars == <<arguments, command, parse_pc, cli, file, matches, config, app, stdout,
          main_pc, endpoint, get_pc, clock, body_len, received, result>>

---------------------------------------------------------------------------
(* Bounds of the model. *)

\* Longest token sequence handed to parse.
MaxLen == 4
\* Longest run of flag tokens after "create person".
MaxFlagLen == 4
\* Most instances in a loaded registry.
MaxApps == 2
\* Seconds the model lets pass during one get().
MaxClock == 3
\* Most body chunks a response is made of.
MaxChunks == 2

---------------------------------------------------------------------------
(* Option and Result values. *)

None == [some |-> FALSE]
Some(v) == [some |-> TRUE, val |-> v]
Ok(v) == [ok |-> TRUE, val |-> v]
Err(e) == [ok |-> FALSE, err |-> e]

---------------------------------------------------------------------------
(* Tokens: the strings of the command line, character by character.  The  *)
(* tokens health and nobody occur nowhere in the source: they are inputs   *)
(* (a subcommand name parse does not know, a value without an @).          *)

show == <<"s","h","o","w">>
people == <<"p","e","o","p","l","e">>
questionnaires == <<"q","u","e","s","t","i","o","n","n","a","i","r","e","s">>
questionnares == <<"q","u","e","s","t","i","o","n","n","a","r","e","s">>
delete == <<"d","e","l","e","t","e">>
update == <<"u","p","d","a","t","e">>
add == <<"a","d","d">>
remove == <<"r","e","m","o","v","e">>
create == <<"c","r","e","a","t","e">>
person == <<"p","e","r","s","o","n">>
health == <<"h","e","a","l","t","h">>
foo == <<"f","o","o">>
nobody == <<"n","o","b","o","d","y">>
email_ab == <<"a","@","b",".","c","o","m">>
id_123a == <<"1","2","3","a">>
flag_name == <<"-","-","n","a","m","e">>
flag_email == <<"-","-","e","m","a","i","l">>
steve == <<"S","t","e","v","e">>

Tokens == {show, people, questionnaires, questionnares, delete, update, add,
           remove, create, person, health, foo, nobody, email_ab, id_123a}
FlagTokens == {flag_name, flag_email, steve, email_ab}

---------------------------------------------------------------------------
(* The Command enum. *)

ShowQuestionnaires == [tag |-> "ShowQuestionnaires"]
ShowPeople == [tag |-> "ShowPeople"]
DeletePerson(email) == [tag |-> "DeletePerson", email |-> email]
CreatePerson(fields) == [tag |-> "CreatePerson", fields |-> fields]
AddPersonToQuestionnaire(id, email) ==
    [tag |-> "AddPersonToQuestionnaire", id |-> id, email |-> email]
RemovePersonFromQuestionnaire(id, email) ==
    [tag |-> "RemovePersonFromQuestionnaire", id |-> id, email |-> email]
Unknown(raw) == [tag |-> "Unknown", raw |-> raw]

\* What a call of parse ends in besides a Command: the index-out-of-bounds
\* panic of arguments[i].
Panicked == [tag |-> "panic"]

---------------------------------------------------------------------------
(* has_at: Ok(()) iff the value contains the character @. *)

has_at(v) == \E i \in 1..Len(v) : v[i] = "@"

---------------------------------------------------------------------------
(* Command::parse.  Each branch yields Some(result) when it returns from   *)
(* parse (or panics), and None when control falls through to the next.     *)

\* Vec::get(i), i counted from 0.
get_arg(v, i) == IF i < Len(v) THEN Some(v[i + 1]) ELSE None

\* v[i], i counted from 0: a panic when i is out of bounds.
in_bounds(v, i) == i < Len(v)

\* iter().skip(n).collect()
skip(v, n) == IF n >= Len(v) THEN <<>> ELSE SubSeq(v, n + 1, Len(v))

\* chunks_exact(n): the full chunks only, the remainder dropped.
chunks_exact(v, n) == [k \in 1..(Len(v) \div n) |-> SubSeq(v, (k - 1) * n + 1, k * n)]

show_branch(args) ==
    IF args = <<show, people>> THEN Some(ShowPeople)
    ELSE IF args = <<show, questionnares>> THEN Some(ShowQuestionnaires)
    ELSE None

\* Variant of delete_branch without the test of the first token.
delete_branch_unguarded(args) ==
    IF get_arg(args, 1).some THEN Some(DeletePerson(get_arg(args, 1).val)) ELSE None

\* Variant of delete_branch taking the email from the last token.
delete_branch_last(args) ==
    IF get_arg(args, 0) = Some(delete) /\ get_arg(args, 1).some
    THEN Some(DeletePerson(args[Len(args)]))
    ELSE None

delete_branch(args) ==
    IF get_arg(args, 0) = Some(delete)
    THEN IF get_arg(args, 1).some
         THEN Some(DeletePerson(get_arg(args, 1).val))
         ELSE None
    ELSE None

\* Variant of update_branch with id and email taken from each other's place.
update_branch_swapped(args) ==
    IF get_arg(args, 0) = Some(update) /\ Len(args) >= 4 /\ args[3] \in {add, remove}
    THEN Some(IF args[3] = add
              THEN AddPersonToQuestionnaire(args[4], args[2])
              ELSE RemovePersonFromQuestionnaire(args[4], args[2]))
    ELSE None

update_branch(args) ==
    IF get_arg(args, 0) = Some(update)
    THEN IF get_arg(args, 2) = Some(add)
         THEN IF in_bounds(args, 1) /\ in_bounds(args, 3)
              THEN Some(AddPersonToQuestionnaire(args[2], args[4]))
              ELSE Some(Panicked)
         ELSE IF get_arg(args, 2) = Some(remove)
         THEN IF in_bounds(args, 1) /\ in_bounds(args, 3)
              THEN Some(RemovePersonFromQuestionnaire(args[2], args[4]))
              ELSE Some(Panicked)
         ELSE None
    ELSE None

\* The loop over the pairs has an empty body: the branch returns nothing.
create_branch(args) ==
    IF get_arg(args, 0) = Some(create) /\ get_arg(args, 1) = Some(person)
    THEN LET remainder == skip(args, 2)
             chunks == chunks_exact(remainder, 2)
         IN  None
    ELSE None

parse(args) ==
    IF show_branch(args).some THEN show_branch(args).val
    ELSE IF delete_branch(args).some THEN delete_branch(args).val
    ELSE IF update_branch(args).some THEN update_branch(args).val
    ELSE IF create_branch(args).some THEN create_branch(args).val
    ELSE Unknown(args)

\* Inputs of parse: every token sequence up to MaxLen, and "create person"
\* followed by up to MaxFlagLen flag tokens.
BoundedSeq(S, n) == UNION {[1..k -> S] : k \in 0..n}
ParseInputs ==
    BoundedSeq(Tokens, MaxLen)
        \cup {<<create, person>> \o f : f \in BoundedSeq(FlagTokens, MaxFlagLen)}

NoCommand == [tag |-> "none"]

---------------------------------------------------------------------------
(* main: the argument matcher it configures. *)

\* App::get_matches for the declared arguments: --app is required; "show"
\* takes a kind among the possible values; "delete" takes an email accepted
\* by has_at; "update" takes an id, a mode among the possible values and an
\* email accepted by has_at.  Anything else ends the process with a usage
\* error.
get_matches(c) ==
    LET s == c.sub
        m(name, values) == Ok([app_name |-> c.app.val, subcommand |-> name, values |-> values])
    IN  IF ~c.app.some THEN Err("usage")
        ELSE IF s = <<>> THEN m("", <<>>)
        ELSE IF s[1] = show
        THEN IF Len(s) = 2 /\ s[2] \in {people, questionnaires}
             THEN m("show", Tail(s)) ELSE Err("usage")
        ELSE IF s[1] = delete
        THEN IF Len(s) = 2 /\ has_at(s[2])
             THEN m("delete", Tail(s)) ELSE Err("usage")
        ELSE IF s[1] = update
        THEN IF Len(s) = 4 /\ s[3] \in {add, remove} /\ has_at(s[4])
             THEN m("update", Tail(s)) ELSE Err("usage")
        ELSE Err("usage")

\* The three "Running the ... command" lines: one per matched subcommand.
announce(m) ==
    (IF m.subcommand = "show"
     THEN <<[line |-> "Running the show command with", args |-> <<m.values[1]>>]>>
     ELSE <<>>)
    \o (IF m.subcommand = "delete"
        THEN <<[line |-> "Running the delete command with", args |-> <<m.values[1]>>]>>
        ELSE <<>>)
    \o (IF m.subcommand = "update"
        THEN <<[line |-> "Running the update command to",
                args |-> <<m.values[2], m.values[1], m.values[3]>>]>>
        ELSE <<>>)

---------------------------------------------------------------------------
(* AdvisorApp and Config. *)

AdvisorApp(name, location) == [name |-> name, location |-> location]

healthcheck(a) == a.location \o "/healthcheck"
list_people(a) == a.location \o "/admin/people"

\* Variant of for_app yielding the first app whatever its name.
for_app_first(apps, name) ==
    IF Len(apps) > 0 THEN Some(apps[1]) ELSE None

\* Config::for_app: the first app whose name equals the given one.
for_app(apps, name) ==
    IF \E i \in 1..Len(apps) : apps[i].name = name
    THEN LET i == CHOOSE i \in 1..Len(apps) :
                      /\ apps[i].name = name
                      /\ \A j \in 1..(i - 1) : apps[j].name # name
         IN  Some(apps[i])
    ELSE None

\* load_config: the settings source deserialized into a Config, or
\* CouldNotFindConfig when there is none or it does not deserialize.
load_config(f) ==
    IF f.kind = "apps" THEN Ok([apps |-> f.apps]) ELSE Err("CouldNotFindConfig")

Names == {"prod", "Prod", "staging"}
Locations == {"http://a", "http://b"}
Apps == {AdvisorApp(n, l) : n \in Names, l \in Locations}
Files ==
    {[kind |-> "missing"], [kind |-> "malformed"]}
        \cup {[kind |-> "apps", apps |-> a] : a \in BoundedSeq(Apps, MaxApps)}

\* Command lines: the --app option given or not, and the remaining tokens.
SubInputs ==
    {<<>>, <<foo>>, <<show>>, <<delete>>, <<update, id_123a, add>>,
     <<show, people, people>>}
        \cup {<<show, k>> : k \in {people, questionnaires, questionnares}}
        \cup {<<delete, e>> : e \in {email_ab, nobody}}
        \cup {<<update, id_123a, m, e>> : m \in {add, remove, foo}, e \in {email_ab, nobody}}
CliInputs == {[app |-> a, sub |-> s] : a \in {None} \cup {Some(n) : n \in Names}, s \in SubInputs}

Unset == [unset |-> TRUE]

---------------------------------------------------------------------------
(* The state before anything runs, per routine. *)

ParseIdle == arguments = <<>> /\ command = NoCommand /\ parse_pc = "idle"
MainIdle ==
    /\ cli = Unset /\ file = Unset /\ matches = Unset /\ config = Unset
    /\ app = Unset /\ stdout = <<>> /\ main_pc = "idle"
GetIdle ==
    /\ endpoint = "" /\ get_pc = "idle" /\ clock = 0 /\ body_len = 0
    /\ received = 0 /\ result = Unset

---------------------------------------------------------------------------
(* Command::parse called on a token sequence. *)

InitParse ==
    /\ arguments \in ParseInputs
    /\ command = NoCommand
    /\ parse_pc = "called"
    /\ MainIdle /\ GetIdle

Parse ==
    /\ parse_pc = "called"
    /\ LET r == parse(arguments)
       IN  IF r = Panicked
           THEN parse_pc' = "panicked" /\ command' = command
           ELSE parse_pc' = "returned" /\ command' = r
    /\ UNCHANGED arguments
    /\ UNCHANGED <<main_vars, get_vars>>

NextParse == Parse
SpecParse == InitParse /\ [][NextParse]_vars

---------------------------------------------------------------------------
(* main. *)

InitMain ==
    /\ cli \in CliInputs
    /\ file \in Files
    /\ matches = Unset /\ config = Unset /\ app = Unset
    /\ stdout = <<>>
    /\ main_pc = "get_matches"
    /\ ParseIdle /\ GetIdle

\* get_matches: the matches, or the process ends with a usage error.
GetMatches ==
    /\ main_pc = "get_matches"
    /\ matches' = get_matches(cli)
    /\ main_pc' = IF matches'.ok THEN "announce" ELSE "usage_exit"
    /\ UNCHANGED <<cli, file, config, app, stdout>>
    /\ UNCHANGED <<parse_vars, get_vars>>

\* The three subcommand_matches blocks.
Announce ==
    /\ main_pc = "announce"
    /\ stdout' = stdout \o announce(matches.val)
    /\ main_pc' = "load_config"
    /\ UNCHANGED <<cli, file, matches, config, app>>
    /\ UNCHANGED <<parse_vars, get_vars>>

\* load_config().expect(...)
LoadConfig ==
    /\ main_pc = "load_config"
    /\ config' = load_config(file)
    /\ main_pc' = IF config'.ok THEN "for_app" ELSE "panic_no_config"
    /\ UNCHANGED <<cli, file, matches, app, stdout>>
    /\ UNCHANGED <<parse_vars, get_vars>>

\* config.for_app(app_name).expect(...)
ForApp ==
    /\ main_pc = "for_app"
    /\ app' = for_app(config.val.apps, matches.val.app_name)
    /\ main_pc' = IF app'.some THEN "return" ELSE "panic_no_app"
    /\ UNCHANGED <<cli, file, matches, config, stdout>>
    /\ UNCHANGED <<parse_vars, get_vars>>

\* The call of get and the Success/Failure lines are commented out: main
\* returns Ok(()) with nothing more printed and no request made.
Return ==
    /\ main_pc = "return"
    /\ main_pc' = "exited"
    /\ UNCHANGED <<cli, file, matches, config, app, stdout>>
    /\ UNCHANGED <<parse_vars, get_vars>>

NextMain == GetMatches \/ Announce \/ LoadConfig \/ ForApp \/ Return
SpecMain == InitMain /\ [][NextMain]_vars

---------------------------------------------------------------------------
(* get(endpoint): the request under a timeout, then the body read. *)

\* Duration::from_secs(1)
TimeoutSecs == 1

Endpoints == {healthcheck(a) : a \in Apps} \cup {list_people(a) : a \in Apps}

RemoteAPIError == Err("RemoteAPIError")

\* The request future (connection and response headers) is still pending.
InRequest == get_pc \in {"connecting", "awaiting_headers"}

\* The timer of .timeout(...) wraps the request future only.
TimerDue == InRequest /\ clock >= TimeoutSecs

InitGet ==
    /\ endpoint \in Endpoints
    /\ get_pc = "connecting"
    /\ clock = 0 /\ body_len = 0 /\ received = 0
    /\ result = Unset
    /\ ParseIdle /\ MainIdle

\* The remote accepts the connection.
Connected ==
    /\ get_pc = "connecting"
    /\ get_pc' = "awaiting_headers"
    /\ UNCHANGED <<endpoint, clock, body_len, received, result>>
    /\ UNCHANGED <<parse_vars, main_vars>>

\* The remote sends the response headers: the request future resolves.
HeadersArrive ==
    /\ get_pc = "awaiting_headers"
    /\ \E n \in 0..MaxChunks : body_len' = n
    /\ get_pc' = "reading_body"
    /\ UNCHANGED <<endpoint, clock, received, result>>
    /\ UNCHANGED <<parse_vars, main_vars>>

\* A transport failure of the request: or_else(|_| RemoteAPIError.fail())?
RequestFailed ==
    /\ InRequest
    /\ get_pc' = "returned"
    /\ result' = RemoteAPIError
    /\ UNCHANGED <<endpoint, clock, body_len, received>>
    /\ UNCHANGED <<parse_vars, main_vars>>

\* The timeout elapses before the request future resolves.
RequestTimeout ==
    /\ TimerDue
    /\ get_pc' = "returned"
    /\ result' = RemoteAPIError
    /\ UNCHANGED <<endpoint, clock, body_len, received>>
    /\ UNCHANGED <<parse_vars, main_vars>>

\* body_string() reads one more chunk of the body.
BodyChunk ==
    /\ get_pc = "reading_body"
    /\ received < body_len
    /\ received' = received + 1
    /\ UNCHANGED <<endpoint, get_pc, clock, body_len, result>>
    /\ UNCHANGED <<parse_vars, main_vars>>

\* body_string() has read the whole body.
BodyComplete ==
    /\ get_pc = "reading_body"
    /\ received = body_len
    /\ get_pc' = "returned"
    /\ result' = Ok(received)
    /\ UNCHANGED <<endpoint, clock, body_len, received>>
    /\ UNCHANGED <<parse_vars, main_vars>>

\* body_string() fails: or_else(|_| RemoteAPIError.fail())
BodyFailed ==
    /\ get_pc = "reading_body"
    /\ get_pc' = "returned"
    /\ result' = RemoteAPIError
    /\ UNCHANGED <<endpoint, clock, body_len, received>>
    /\ UNCHANGED <<parse_vars, main_vars>>

\* A second passes while get() waits; a due timer fires before more time
\* passes.
Tick ==
    /\ get_pc \in {"connecting", "awaiting_headers", "reading_body"}
    /\ ~TimerDue
    /\ clock < MaxClock
    /\ clock' = clock + 1
    /\ UNCHANGED <<endpoint, get_pc, body_len, received, result>>
    /\ UNCHANGED <<parse_vars, main_vars>>

NextGet ==
    \/ Connected \/ HeadersArrive \/ RequestFailed \/ RequestTimeout
    \/ BodyChunk \/ BodyComplete \/ BodyFailed \/ Tick
SpecGet == InitGet /\ [][NextGet]_vars

---------------------------------------------------------------------------
(* Properties. *)

CommandTags ==
    {"ShowQuestionnaires", "ShowPeople", "DeletePerson", "CreatePerson",
     "AddPersonToQuestionnaire", "RemovePersonFromQuestionnaire", "Unknown"}

ParseDone == parse_pc # "called" /\ parse_pc # "idle"

\* C1: parse is total: every call returns a Command and never aborts, and
\* a "delete" or "update" sequence with a required value missing yields
\* Unknown.
ParseIsTotal ==
    ParseDone =>
        /\ parse_pc = "returned"
        /\ command.tag \in CommandTags
        /\ (\/ (get_arg(arguments, 0) = Some(delete) /\ Len(arguments) < 2)
            \/ (get_arg(arguments, 0) = Some(update) /\ Len(arguments) < 4))
               => command = Unknown(arguments)

\* C2: whenever parse returns DeletePerson, AddPersonToQuestionnaire or
\* RemovePersonFromQuestionnaire, the email of that value contains an @.
ParsedEmailHasAt ==
    (parse_pc = "returned"
        /\ command.tag \in {"DeletePerson", "AddPersonToQuestionnaire",
                            "RemovePersonFromQuestionnaire"})
        => has_at(command.email)

\* C3: "create person" followed by consecutive --key value pairs parses to
\* CreatePerson(fields), fields mapping each key without its leading "--"
\* to the value of its last occurrence.
CreatePersonCollectsFields ==
    LET rem == skip(arguments, 2)
        n == Len(rem) \div 2
        is_flag(t) == Len(t) > 2 /\ t[1] = "-" /\ t[2] = "-"
        strip(t) == SubSeq(t, 3, Len(t))
        keys == {strip(rem[2 * k - 1]) : k \in 1..n}
        last(key) == CHOOSE k \in 1..n :
                        /\ strip(rem[2 * k - 1]) = key
                        /\ \A j \in (k + 1)..n : strip(rem[2 * j - 1]) # key
        fields == [key \in keys |-> rem[2 * last(key)]]
    IN  (/\ ParseDone
         /\ get_arg(arguments, 0) = Some(create)
         /\ get_arg(arguments, 1) = Some(person)
         /\ Len(rem) = 2 * n
         /\ \A k \in 1..n : is_flag(rem[2 * k - 1]))
            => parse_pc = "returned" /\ command = CreatePerson(fields)

\* C4: parse maps each kind the "show" subcommand admits to its variant:
\* [show, people] to ShowPeople and [show, questionnaires] to
\* ShowQuestionnaires.
ShowKindsParse ==
    ParseDone =>
        /\ arguments = <<show, people>> => command = ShowPeople
        /\ arguments = <<show, questionnaires>> => command = ShowQuestionnaires

\* C5: for a four-token sequence [update, id, mode, email], parse returns
\* AddPersonToQuestionnaire{id, email} for mode add,
\* RemovePersonFromQuestionnaire{id, email} for mode remove, and neither
\* variant for any other mode.
UpdateFourTokens ==
    (ParseDone /\ Len(arguments) = 4 /\ arguments[1] = update) =>
        /\ parse_pc = "returned"
        /\ arguments[3] = add
            => command = AddPersonToQuestionnaire(arguments[2], arguments[4])
        /\ arguments[3] = remove
            => command = RemovePersonFromQuestionnaire(arguments[2], arguments[4])
        /\ arguments[3] \notin {add, remove}
            => command.tag \notin {"AddPersonToQuestionnaire",
                                   "RemovePersonFromQuestionnaire"}

UpdateFourTokensWitness ==
    /\ parse_pc = "returned"
    /\ arguments = <<update, id_123a, add, email_ab>>
    /\ command.tag = "AddPersonToQuestionnaire"

\* C6: a sequence whose first token is "delete" and whose second token is
\* an email containing @ parses to DeletePerson with that second token,
\* unchanged, as the email.
DeleteWithEmail ==
    (ParseDone /\ Len(arguments) >= 2 /\ arguments[1] = delete /\ has_at(arguments[2]))
        => parse_pc = "returned" /\ command = DeletePerson(arguments[2])

DeleteWithEmailWitness ==
    /\ parse_pc = "returned"
    /\ arguments = <<delete, email_ab, foo>>
    /\ command.tag = "DeletePerson"

\* C7: the empty sequence, and a sequence whose first token is none of
\* health, show, delete, update, create, parses to Unknown carrying exactly
\* the input tokens in order; it is a normal result.
UnrecognizedKeepsTokens ==
    (ParseDone /\ (arguments = <<>>
                   \/ arguments[1] \notin {health, show, delete, update, create}))
        => parse_pc = "returned" /\ command = Unknown(arguments)

UnrecognizedWitness ==
    /\ parse_pc = "returned"
    /\ arguments = <<foo, nobody, add>>
    /\ command.tag = "Unknown"

\* C8: get() has returned once its timeout has elapsed, whichever stage
\* the remote stalls in: connection, response headers or body.
GetReturnsWithinTimeout ==
    (get_pc # "idle" /\ clock > TimeoutSecs) => get_pc = "returned"

\* C9: for_app yields an instance of the registry whose name equals the
\* given name exactly when the registry holds one, and none otherwise; when
\* it yields none the run ends in the instance-not-found failure, with no
\* instance resolved and no request made.
ForAppExactMatch ==
    LET looked == main_pc \in {"return", "exited", "panic_no_app"}
        name == matches.val.app_name
        apps == config.val.apps
        held == \E i \in 1..Len(apps) : apps[i].name = name
    IN  /\ (main_pc = "for_app" \/ looked) =>
               LET r == for_app(apps, name)
               IN  /\ r.some <=> held
                   /\ r.some => r.val.name = name /\ \E i \in 1..Len(apps) : apps[i] = r.val
        /\ looked =>
               /\ app = for_app(apps, name)
               /\ main_pc = "panic_no_app" <=> ~held
               /\ main_pc = "panic_no_app" => app = None /\ get_pc = "idle"

ForAppNotFoundWitness ==
    /\ main_pc = "panic_no_app"
    /\ matches.val.app_name = "prod"
    /\ \E i \in 1..Len(config.val.apps) : config.val.apps[i].name = "Prod"
    /\ app = None

\* C10: a run in which the config loads and the instance resolves has
\* printed exactly one outcome line, Success or Failure, when it exits.
OutcomeLinePrinted ==
    main_pc = "exited" =>
        Cardinality({i \in 1..Len(stdout) :
                        stdout[i].line \in {"Success:", "Failure:"}}) = 1

====
